---- MODULE Spec2Model ----
(***************************************************************************)
(* Model of src/watchers.rs: a Watcher over an inotify connection.         *)
(*                                                                         *)
(* The Watcher (file_watcher, dir_watcher, register_logger, watch and the  *)
(* two event loops) is translated from the source.  Its two collaborators, *)
(* the filesystem and the inotify Event Source, are the environment: a     *)
(* small directory tree that changes under the Watcher, and a kernel queue *)
(* of events with inotify's semantics (one watch per directory, the same   *)
(* handle returned for a directory that is already watched, the watch      *)
(* removed with an IN_IGNORED event when its directory is deleted,         *)
(* identical consecutive events coalesced).                                *)
(*                                                                         *)
(* Strings are sequences of one-character strings, so that starts_with,    *)
(* path concatenation and to_str are computed, not assumed: the walk joins *)
(* paths as Path::join does, the event loop by appending "/" and the name, *)
(* and the kernel resolves either spelling.  The trees hold directories    *)
(* and regular files, no symbolic links, and entries are created and       *)
(* deleted, not renamed.                                                   *)
(***************************************************************************)
EXTENDS Integers, Sequences, FiniteSets, TLC

\* Bound: how many filesystem operations the environment performs.
MaxOps == 3

\* Size in bytes of the buffer one read of the Event Source fills.
BufferSize == 4096

---------------------------------------------------------------------------
(* Options: None is the empty set, Some(x) is {x}.                         *)

None == {}

Some(x) == {x}

Unwrap(o) == CHOOSE x \in o : TRUE

---------------------------------------------------------------------------
(* Strings and names.                                                      *)

\* A byte sequence that is not valid UTF-8 is a string containing this token.
InvalidByte == "xFF"

NameA == <<"a">>

NameB == <<"b">>

NameHidden == <<".", "h">>

NameRaw == <<InvalidByte>>

NameFile == <<"f">>

\* Names of the directories the environment creates in the root directory.
DirNames == {NameA, NameHidden, NameRaw}

\* OsStr::to_str: None when the bytes are not valid UTF-8.
to_str(s) == IF \E i \in 1..Len(s) : s[i] = InvalidByte THEN None ELSE Some(s)

\* str::starts_with(".")
starts_with_dot(s) == Len(s) >= 1 /\ s[1] = "."

\* A path without its trailing "/" characters.
RECURSIVE TrimSlash(_)
TrimSlash(p) ==
    IF Len(p) > 1 /\ p[Len(p)] = "/" THEN TrimSlash(SubSeq(p, 1, Len(p) - 1)) ELSE p

\* Path::file_name as walkdir's DirEntry::file_name gives it: the last
\* component, which is the part after the last "/" once trailing "/" are
\* set aside, the whole path when there is none.
file_name(p) ==
    LET q == TrimSlash(p)
        cut == {i \in 1..Len(q) : q[i] = "/"}
        from == IF cut = {} THEN 1 ELSE (CHOOSE i \in cut : \A j \in cut : j <= i) + 1
    IN  SubSeq(q, from, Len(q))

\* is_hidden(entry), on the entry's path.
is_hidden(p) ==
    LET s == to_str(file_name(p))
    IN  IF s = None THEN FALSE ELSE starts_with_dot(Unwrap(s))

---------------------------------------------------------------------------
(* The filesystem: nodes are sequences of names below the root given to    *)
(* the constructor; <<>> is the root itself.                               *)

Nodes ==
    {<<>>} \cup {<<n>> : n \in DirNames \cup {NameFile}}
           \cup {<<NameA, NameA>>, <<NameA, NameB>>, <<NameHidden, NameA>>,
                 <<NameRaw, NameA>>}

Parent(d) == SubSeq(d, 1, Len(d) - 1)

Last(d) == d[Len(d)]

\* Path::join, by which the walk forms an entry's path from its directory's:
\* a "/" is put between the two unless the directory's path ends with one.
Join(base, name) ==
    IF base # <<>> /\ base[Len(base)] = "/" THEN base \o name
    ELSE base \o <<"/">> \o name

\* The path of node d as a walk from root path r forms it.
RECURSIVE PathStr(_, _)
PathStr(r, d) ==
    IF d = <<>> THEN r ELSE Join(PathStr(r, Parent(d)), Last(d))

\* A path as the kernel resolves it: a run of "/" counts as one and a
\* trailing "/" names the same directory.
RECURSIVE Squeeze(_)
Squeeze(p) ==
    IF p = <<>> THEN <<>>
    ELSE IF Head(p) = "/" /\ (Len(p) = 1 \/ p[2] = "/") THEN Squeeze(Tail(p))
    ELSE <<Head(p)>> \o Squeeze(Tail(p))

\* The constructor calls: the tree, the path and the Traversal given.
Call(ds, fs, r, t) == [dirs |-> ds, files |-> fs, root |-> r, trav |-> t]

InitCalls ==
    { Call({<<>>}, {}, <<"r">>, "RECURSIVE"),
      Call({<<>>, <<NameA>>}, {<<NameFile>>}, <<"r">>, "RECURSIVE"),
      Call({<<>>, <<NameA>>, <<NameHidden>>, <<NameHidden, NameA>>}, {}, <<"r">>, "RECURSIVE"),
      Call({<<>>, <<NameRaw>>}, {}, <<"r">>, "RECURSIVE"),
      Call({<<>>, <<NameA>>}, {}, <<".">>, "RECURSIVE"),
      Call({<<>>, <<NameA>>}, {}, <<"r", "/">>, "RECURSIVE"),
      Call({<<>>, <<NameA>>}, {<<NameFile>>}, <<"r">>, "HEURISTIC"),
      Call({}, {<<>>}, <<"r">>, "HEURISTIC") }

VARIABLES
    dirs,       \* filesystem: the directories that exist
    files,      \* filesystem: the regular files that exist
    ops,        \* how many filesystem operations the environment has done
    ctor,       \* input: which constructor is called, "file" or "dir"
    root,       \* input: the path given to the constructor
    trav,       \* input: the Traversal given to dir_watcher
    pc,         \* "start", "walk", "failed", "idle" or "blocked" (inside watch)
    stack,      \* dir_watcher: the entries WalkDir has still to yield
    watcher_type,   \* Watcher.watcher_type
    watch_mask,     \* Watcher.watch_mask
    logger,     \* Watcher.logger: None or Some
    paths,      \* Watcher.paths: None or Some(handle -> path string)
    watches,    \* Event Source: live watches, handle -> [node, mask]
    nextWd,     \* Event Source: the next handle it hands out
    queue,      \* Event Source: the events not yet read
    nextEv,     \* Event Source: serial number of the next event
    added,      \* every successful add_watch so far: <<handle, path string>>
    ret,        \* what the last watch() returned: "none", "Ok(true)" or "Err"
    faulted,    \* whether some watch() has returned an I/O failure
    handled,    \* the event the last watch() acted on: None or Some(event)
    dispatched, \* the messages the last watch() handed to watcher_info!
    emitted,    \* the messages the logger received in the last watch()
    announced,  \* serials of the events reported as "Directory created", in order
    made,       \* the directories created under the Watcher: <<node, event serial>>
    seen,       \* serial numbers of the events a watch() has acted on
    dropped     \* serial numbers of the events read and discarded unhandled

vars == <<dirs, files, ops, ctor, root, trav, pc, stack, watcher_type, watch_mask,
          logger, paths, watches, nextWd, queue, nextEv, added, ret,
          faulted, handled, dispatched, emitted, announced, made, seen, dropped>>

fsVars == <<dirs, files, ops, made>>

inputVars == <<ctor, root, trav>>

watcherVars == <<watcher_type, watch_mask, logger, paths>>

kernelVars == <<watches, nextWd, queue, nextEv>>

callVars == <<ret, faulted, handled, dispatched, emitted, announced, seen, dropped>>

---------------------------------------------------------------------------
(* The Event Source.                                                       *)

\* The nodes a path string names in the current tree (none or one).
Resolve(p) == {d \in dirs \cup files : Squeeze(PathStr(root, d)) = Squeeze(p)}

\* The live handles watching node d (none or one).
WdOf(d) == {w \in DOMAIN watches : watches[w].node = d}

\* add_watch succeeds only on a path that exists.
CanWatch(p) == Resolve(p) # {}

\* The handle add_watch returns: the node's live handle when it has one,
\* a fresh handle otherwise.
WdFor(p) ==
    LET d == Unwrap(Resolve(p))
    IN  IF WdOf(d) # {} THEN Unwrap(WdOf(d)) ELSE nextWd

\* The watch table after add_watch(p, mask) succeeded.
WatchesAfter(p, mask) ==
    LET d == Unwrap(Resolve(p))
        w == WdFor(p)
    IN  [x \in DOMAIN watches \cup {w} |->
            IF x = w THEN [node |-> d, mask |-> mask] ELSE watches[x]]

NextWdAfter(p) == IF WdFor(p) = nextWd THEN nextWd + 1 ELSE nextWd

\* Two events are the same notification when they agree but for the serial.
SameEvent(e, f) == e.wd = f.wd /\ e.mask = f.mask /\ e.name = f.name

\* Queue q with event e appended, unless it repeats the last queued event.
Enqueue(q, e) ==
    IF q # <<>> /\ SameEvent(q[Len(q)], e) THEN q ELSE Append(q, e)

\* The events the watch on node d (if any, and if it asked for bit) is sent.
EventsFor(d, bit, flags, name, id) ==
    IF WdOf(d) # {} /\ bit \in watches[Unwrap(WdOf(d))].mask
    THEN <<[id |-> id, wd |-> Unwrap(WdOf(d)), mask |-> {bit} \cup flags, name |-> name]>>
    ELSE <<>>

\* IN_IGNORED, sent when the watch on node d is removed with d.
IgnoredFor(d, id) ==
    IF WdOf(d) # {}
    THEN <<[id |-> id, wd |-> Unwrap(WdOf(d)), mask |-> {"IGNORED"}, name |-> None]>>
    ELSE <<>>

RECURSIVE EnqueueAll(_, _)
EnqueueAll(q, es) ==
    IF es = <<>> THEN q ELSE EnqueueAll(Enqueue(q, Head(es)), Tail(es))

\* The watch table without the watch on node d.
Unwatch(d) == [w \in DOMAIN watches \ WdOf(d) |-> watches[w]]

---------------------------------------------------------------------------
(* Initial states: the inputs of the constructor call and the tree it is   *)
(* called on; no Watcher exists yet.                                       *)

DirMask == {"MODIFY", "CREATE", "DELETE"}

FileMask == {"MODIFY", "DELETE"}

Init ==
    /\ \E c \in InitCalls :
          dirs = c.dirs /\ files = c.files /\ root = c.root /\ trav = c.trav
    /\ ops = 0
    /\ ctor = (IF <<>> \in files THEN "file" ELSE "dir")
    /\ pc = "start"
    /\ stack = <<>>
    /\ watcher_type = "none"
    /\ watch_mask = {}
    /\ logger = None
    /\ paths = None
    /\ watches = <<>>
    /\ nextWd = 1
    /\ queue = <<>>
    /\ nextEv = 1
    /\ added = <<>>
    /\ ret = "none"
    /\ faulted = FALSE
    /\ handled = None
    /\ dispatched = <<>>
    /\ emitted = <<>>
    /\ announced = <<>>
    /\ made = {}
    /\ seen = {}
    /\ dropped = {}

---------------------------------------------------------------------------
(* Construction.                                                           *)

\* Inotify::init()? or a constructor's add_watch(..)? fails: the constructor
\* returns the error and no Watcher.
ConstructFails ==
    /\ pc \in {"start", "walk"}
    /\ pc' = "failed"
    /\ stack' = <<>>
    /\ paths' = None
    /\ watch_mask' = {}
    /\ UNCHANGED <<fsVars, inputVars, watcher_type, logger, kernelVars, added, callVars>>

\* The state change of one successful add_watch(p, mask).
AddWatch(p, mask) ==
    \E path \in {p} :
        /\ CanWatch(path)
        /\ watches' = WatchesAfter(path, mask)
        /\ nextWd' = NextWdAfter(path)
        /\ added' = Append(added, <<WdFor(path), path>>)

file_watcher ==
    /\ pc = "start" /\ ctor = "file"
    /\ AddWatch(root, FileMask)
    /\ watcher_type' = "FILE"
    /\ watch_mask' = FileMask
    /\ logger' = None
    /\ paths' = None
    /\ pc' = "idle"
    /\ UNCHANGED <<fsVars, inputVars, stack, queue, nextEv, callVars>>

\* Faulty variant of dir_watcher_heuristic: it builds a registry for the root.
dir_watcher_heuristic_with_registry ==
    /\ pc = "start" /\ ctor = "dir" /\ trav = "HEURISTIC"
    /\ AddWatch(root, DirMask)
    /\ watcher_type' = "DIRECTORY"
    /\ watch_mask' = DirMask
    /\ logger' = None
    /\ paths' = Some([w \in {WdFor(root)} |-> root])
    /\ pc' = "idle"
    /\ UNCHANGED <<fsVars, inputVars, stack, queue, nextEv, callVars>>

dir_watcher_heuristic ==
    /\ pc = "start" /\ ctor = "dir" /\ trav = "HEURISTIC"
    /\ AddWatch(root, DirMask)
    /\ watcher_type' = "DIRECTORY"
    /\ watch_mask' = DirMask
    /\ logger' = None
    /\ paths' = None
    /\ pc' = "idle"
    /\ UNCHANGED <<fsVars, inputVars, stack, queue, nextEv, callVars>>

\* Faulty variant of filter_entry: hidden entries are not left out.
filter_entry_dirs_only(d) == d \in dirs

\* The predicate given to filter_entry: |e| !is_hidden(e) && e.file_type().is_dir()
filter_entry(d) == ~is_hidden(PathStr(root, d)) /\ d \in dirs

\* The order in which a directory's entries are read (readdir's order is not
\* specified; handles are opaque, so one order is taken).
NameOrder == <<NameA, NameB, NameHidden, NameRaw, NameFile>>

\* The entries of directory d that WalkDir yields and descends into.
Entries(d) ==
    LET all == [i \in 1..Len(NameOrder) |-> Append(d, NameOrder[i])]
        keep(c) == c \in dirs \cup files /\ filter_entry(c)
    IN  SelectSeq(all, keep)

\* Faulty variant of Insert: the pair is not stored.
InsertNothing(m, k, v) == m

\* HashMap::insert
Insert(m, k, v) == [x \in DOMAIN m \cup {k} |-> IF x = k THEN v ELSE m[x]]

\* Faulty variant of InsertWalked: the root of the walk is not stored.
InsertWalkedBelowRoot(m, wd, p) ==
    IF to_str(p) # None /\ p # root THEN Insert(m, wd, Unwrap(to_str(p))) ELSE m

\* paths.insert(wd, String::from(path)) under  if let Some(path) = path.to_str()
InsertWalked(m, wd, p) == IF to_str(p) # None THEN Insert(m, wd, Unwrap(to_str(p))) ELSE m

\* dir_watcher(path, RECURSIVE): the walk starts at the root, which passes
\* through filter_entry like every other entry.
dir_watcher_recursive ==
    /\ pc = "start" /\ ctor = "dir" /\ trav = "RECURSIVE"
    /\ pc' = "walk"
    /\ watch_mask' = DirMask
    /\ paths' = Some(<<>>)
    /\ stack' = (IF filter_entry(<<>>) THEN << <<>> >> ELSE <<>>)
    /\ UNCHANGED <<fsVars, inputVars, watcher_type, logger, kernelVars, added, callVars>>

\* Faulty variant of walk_step: an entry whose add_watch fails is skipped and
\* the walk goes on.
walk_step_skips_failure ==
    /\ pc = "walk" /\ stack # <<>>
    /\ LET d == Head(stack)
           p == PathStr(root, d)
       IN  /\ \/ /\ AddWatch(p, watch_mask)
                 /\ paths' = Some(InsertWalked(Unwrap(paths), WdFor(p), p))
              \/ UNCHANGED <<paths, watches, nextWd, added>>
           /\ stack' = Entries(d) \o Tail(stack)
    /\ UNCHANGED <<fsVars, inputVars, pc, watcher_type, watch_mask, logger, queue,
                   nextEv, callVars>>

\* One iteration of the for loop over the walk.
walk_step ==
    /\ pc = "walk" /\ stack # <<>>
    /\ LET d == Head(stack)
           p == PathStr(root, d)
       IN  /\ AddWatch(p, watch_mask)
           /\ paths' = Some(InsertWalked(Unwrap(paths), WdFor(p), p))
           /\ stack' = Entries(d) \o Tail(stack)
    /\ UNCHANGED <<fsVars, inputVars, pc, watcher_type, watch_mask, logger, queue,
                   nextEv, callVars>>

\* The walk is over: Ok(Watcher { .. }).
walk_done ==
    /\ pc = "walk" /\ stack = <<>>
    /\ pc' = "idle"
    /\ watcher_type' = "DIRECTORY"
    /\ logger' = None
    /\ UNCHANGED <<fsVars, inputVars, stack, watch_mask, paths, kernelVars, added,
                   callVars>>

register_logger ==
    /\ pc = "idle"
    /\ logger' = Some("logger")
    /\ UNCHANGED <<fsVars, inputVars, pc, stack, watcher_type, watch_mask, paths,
                   kernelVars, added, callVars>>

---------------------------------------------------------------------------
(* The environment: the tree changes while a Watcher exists.               *)

Watching == pc \in {"idle", "blocked"}

\* The environment's step: the tree becomes (ds, fs), the events es are
\* queued, and the watches on deleted nodes gone are removed.
EnvStep(ds, fs, es, gone, mk) ==
    /\ Watching /\ ops < MaxOps
    /\ ops' = ops + 1
    /\ dirs' = ds
    /\ files' = fs
    /\ made' = mk
    /\ queue' = EnqueueAll(queue, es)
    /\ nextEv' = nextEv + Len(es)
    /\ watches' = (IF gone = <<>> THEN watches ELSE Unwatch(gone[1]))
    /\ UNCHANGED <<inputVars, pc, stack, watcherVars, nextWd, added, callVars>>

Mkdir(d) ==
    /\ d # <<>> /\ Last(d) \in DirNames
    /\ d \notin dirs \cup files /\ Parent(d) \in dirs
    /\ EnvStep(dirs \cup {d}, files,
               EventsFor(Parent(d), "CREATE", {"ISDIR"}, Some(Last(d)), nextEv), <<>>,
               made \cup {<<d, IF WdOf(Parent(d)) # {} THEN nextEv ELSE 0>>})

\* rmdir of an empty directory: IN_DELETE to the parent's watch, and
\* IN_IGNORED to its own, which the kernel removes.
Rmdir(d) ==
    /\ d # <<>> /\ d \in dirs
    /\ \A c \in dirs \cup files : c = <<>> \/ Parent(c) # d
    /\ LET del == EventsFor(Parent(d), "DELETE", {"ISDIR"}, Some(Last(d)), nextEv)
       IN  EnvStep(dirs \ {d}, files, del \o IgnoredFor(d, nextEv + Len(del)), <<d>>,
                   {m \in made : m[1] # d})

CreateFile(f) ==
    /\ f # <<>> /\ Last(f) = NameFile
    /\ f \notin dirs \cup files /\ Parent(f) \in dirs
    /\ EnvStep(dirs, files \cup {f},
               EventsFor(Parent(f), "CREATE", {}, Some(Last(f)), nextEv), <<>>, made)

\* A write to a file: IN_MODIFY to the watch on the file itself (no name)
\* and to the watch on its directory (with the file's name).
ModifyFile(f) ==
    /\ f \in files
    /\ LET self == EventsFor(f, "MODIFY", {}, None, nextEv)
           up == IF f = <<>> THEN <<>>
                 ELSE EventsFor(Parent(f), "MODIFY", {}, Some(Last(f)), nextEv + Len(self))
       IN  EnvStep(dirs, files, self \o up, <<>>, made)

DeleteFile(f) ==
    /\ f \in files
    /\ LET del == IF f = <<>> THEN <<>>
                  ELSE EventsFor(Parent(f), "DELETE", {}, Some(Last(f)), nextEv)
       IN  EnvStep(dirs, files \ {f}, del \o IgnoredFor(f, nextEv + Len(del)), <<f>>, made)

---------------------------------------------------------------------------
(* watch() and the two event loops.                                        *)

\* Bytes one event takes in the read buffer: a 16-byte header and the name,
\* NUL-terminated and padded to a multiple of 16.
EventSize(e) ==
    16 + (IF e.name = None THEN 0 ELSE 16 * ((Len(Unwrap(e.name)) + 16) \div 16))

\* How many events from the head of q fit in room bytes.
RECURSIVE Fit(_, _)
Fit(q, room) ==
    IF q = <<>> \/ EventSize(Head(q)) > room THEN 0
    ELSE 1 + Fit(Tail(q), room - EventSize(Head(q)))

\* read_events_blocking(&mut buffer): the events one read returns.
Batch(q) == SubSeq(q, 1, Fit(q, BufferSize))

\* Faulty variant of Unread: the read consumes only the event it acts on.
UnreadButFirst(q) == Tail(q)

\* What stays queued in the Event Source after that read.
Unread(q) == SubSeq(q, Len(Batch(q)) + 1, Len(q))

\* for event in events { .. return Ok(true); }: the events the loop body runs on.
Iterated(batch) == IF batch = <<>> THEN <<>> ELSE <<Head(batch)>>

Ids(es) == {es[i].id : i \in 1..Len(es)}

\* Faulty variant of watcher_info: the presence of a logger is not checked.
watcher_info_always(msgs) == msgs

\* watcher_info!: the messages reach the logger only when one is attached.
watcher_info(msgs) == IF logger # None THEN msgs ELSE <<>>

\* The effect of the watcher_info! calls of one pass of the loop body.
Log(event, msgs) ==
    \E said \in {msgs} :
        /\ dispatched' = said
        /\ emitted' = watcher_info(said)
        /\ announced' = announced \o
              [i \in 1..Cardinality({j \in 1..Len(said) :
                                       said[j].text = <<"Directory", "created">>})
                 |-> event.id]

Msg(text, arg) == [text |-> text, arg |-> arg]

\* Faulty variant of Classify: delete is tested before create.
ClassifyDeleteFirst(mask) ==
    IF "DELETE" \in mask THEN "deleted"
    ELSE IF "CREATE" \in mask THEN "created"
    ELSE IF "MODIFY" \in mask THEN "modified"
    ELSE "none"

\* The branch of the if / else if chain of dir_event_loop an event takes.
Classify(mask) ==
    IF "CREATE" \in mask THEN "created"
    ELSE IF "DELETE" \in mask THEN "deleted"
    ELSE IF "MODIFY" \in mask THEN "modified"
    ELSE "none"

Entity(mask) == IF "ISDIR" \in mask THEN "Directory" ELSE "File"

\* The message of the branch: "Directory created: {:?}", and so on.
Describe(event) ==
    IF Classify(event.mask) = "none" THEN <<>>
    ELSE <<Msg(<<Entity(event.mask), Classify(event.mask)>>, event.name)>>

\* Faulty variant of NameToWatch: hidden names are not left out.
NameToWatchAny(event) ==
    IF event.name = None \/ to_str(Unwrap(event.name)) = None THEN None
    ELSE to_str(Unwrap(event.name))

\* The name of a created directory that the loop goes on to register:
\* Some(name) = event.name, Some(name) = name.to_str(), !name.starts_with(".")
NameToWatch(event) ==
    IF event.name = None \/ to_str(Unwrap(event.name)) = None THEN None
    ELSE IF starts_with_dot(Unwrap(to_str(Unwrap(event.name)))) THEN None
    ELSE to_str(Unwrap(event.name))

\* The conditions under which the loop calls add_watch for a created directory.
Registers(event) ==
    /\ "CREATE" \in event.mask /\ "ISDIR" \in event.mask
    /\ paths # None
    /\ NameToWatch(event) # None
    /\ event.wd \in DOMAIN Unwrap(paths)

\* Faulty variant of NewPath: the new directory is taken to lie in the root.
NewPathFromRoot(event) == root \o <<"/">> \o Unwrap(NameToWatch(event))

\* let new_path = path.to_owned() + "/" + name;
NewPath(event) == Unwrap(paths)[event.wd] \o <<"/">> \o Unwrap(NameToWatch(event))

\* The bookkeeping of one read that returned a batch.
ReadBatch(event) ==
    /\ queue' = Unread(queue)
    /\ handled' = Some(event)
    /\ seen' = seen \cup {event.id}
    /\ dropped' = dropped \cup (Ids(Batch(queue)) \ {event.id})
    /\ pc' = "idle"

watch ==
    /\ pc = "idle"
    /\ pc' = "blocked"
    /\ ret' = "none"
    /\ handled' = None
    /\ dispatched' = <<>>
    /\ emitted' = <<>>
    /\ UNCHANGED <<fsVars, inputVars, stack, watcherVars, kernelVars, added,
                   faulted, announced, seen, dropped>>

\* read_events_blocking(..)? fails: watch() returns the I/O failure.
read_fails ==
    /\ pc = "blocked"
    /\ pc' = "idle"
    /\ ret' = "Err"
    /\ faulted' = TRUE
    /\ UNCHANGED <<fsVars, inputVars, stack, watcherVars, kernelVars, added,
                   handled, dispatched, emitted, announced, seen, dropped>>

\* Faulty variant of read_empty: the call returns Ok(true) when the read
\* returns no event.
read_empty_returns ==
    /\ pc = "blocked"
    /\ Batch(queue) = <<>>
    /\ pc' = "idle"
    /\ ret' = "Ok(true)"
    /\ UNCHANGED <<fsVars, inputVars, stack, watcherVars, kernelVars, added,
                   faulted, handled, dispatched, emitted, announced, seen, dropped>>

\* The read returns no event: the for loop has nothing to run on and the
\* outer loop reads again.
read_empty ==
    /\ pc = "blocked"
    /\ Batch(queue) = <<>>
    /\ UNCHANGED vars

\* Faulty variant of dir_event_registers: a failed add_watch is skipped over
\* and the call returns Ok(true).
dir_event_registers_ignores_failure(event) ==
    /\ Registers(event)
    /\ \E new_path \in {NewPath(event)} :
          /\ Log(event, Describe(event)
                          \o <<Msg(<<"Watching new directory">>, Some(new_path))>>)
          /\ ret' = "Ok(true)"
          /\ UNCHANGED faulted
          /\ \/ /\ AddWatch(new_path, watch_mask)
                /\ \E wd \in {WdFor(new_path)} :
                      paths' = Some(Insert(Unwrap(paths), wd, new_path))
             \/ UNCHANGED <<paths, watches, nextWd, added>>

\* Faulty variant of dir_event_registers: the parent's path is stored under
\* the new handle.
dir_event_registers_stores_parent(event) ==
    /\ Registers(event)
    /\ \E new_path \in {NewPath(event)} :
          /\ Log(event, Describe(event)
                          \o <<Msg(<<"Watching new directory">>, Some(new_path))>>)
          /\ \/ /\ AddWatch(new_path, watch_mask)
                /\ \E wd \in {WdFor(new_path)} :
                      paths' = Some(Insert(Unwrap(paths), wd, Unwrap(paths)[event.wd]))
                /\ ret' = "Ok(true)"
                /\ UNCHANGED faulted
             \/ /\ ret' = "Err"
                /\ faulted' = TRUE
                /\ UNCHANGED <<paths, watches, nextWd, added>>

\* A created directory is registered: add_watch succeeds and the new handle
\* is inserted, or add_watch fails and the ? returns the failure.
dir_event_registers(event) ==
    /\ Registers(event)
    /\ \E new_path \in {NewPath(event)} :
          /\ Log(event, Describe(event)
                          \o <<Msg(<<"Watching new directory">>, Some(new_path))>>)
          /\ \/ /\ AddWatch(new_path, watch_mask)
                /\ \E wd \in {WdFor(new_path)} :
                      paths' = Some(Insert(Unwrap(paths), wd, new_path))
                /\ ret' = "Ok(true)"
                /\ UNCHANGED faulted
             \/ /\ ret' = "Err"
                /\ faulted' = TRUE
                /\ UNCHANGED <<paths, watches, nextWd, added>>

\* Faulty variant of dir_event_other: a deleted directory's entries are
\* removed from the registry.
dir_event_other_prunes(event) ==
    /\ ~Registers(event)
    /\ Log(event, Describe(event))
    /\ ret' = "Ok(true)"
    /\ paths' =
         (IF paths # None /\ Classify(event.mask) = "deleted" /\ "ISDIR" \in event.mask
               /\ event.wd \in DOMAIN Unwrap(paths)
          THEN LET m == Unwrap(paths)
                   gone == m[event.wd] \o <<"/">> \o Unwrap(event.name)
               IN  Some([w \in {x \in DOMAIN m : m[x] # gone} |-> m[w]])
          ELSE paths)
    /\ UNCHANGED <<watches, nextWd, added, faulted>>

\* Every other event: its message, if it has one, and return Ok(true).
dir_event_other(event) ==
    /\ ~Registers(event)
    /\ Log(event, Describe(event))
    /\ ret' = "Ok(true)"
    /\ UNCHANGED <<paths, watches, nextWd, added, faulted>>

dir_event_loop ==
    /\ pc = "blocked" /\ watcher_type = "DIRECTORY"
    /\ Iterated(Batch(queue)) # <<>>
    /\ \E event \in {Head(Iterated(Batch(queue)))} :
           /\ ReadBatch(event)
           /\ \/ dir_event_registers(event)
              \/ dir_event_other(event)
    /\ UNCHANGED <<fsVars, inputVars, stack, watcher_type, watch_mask, logger, nextEv>>

\* Faulty variant of DescribeFile: the file loop words its messages as the
\* directory loop does.
DescribeFileAsDir(event) == Describe(event)

\* The message of file_event_loop for an event.
DescribeFile(event) ==
    IF "MODIFY" \in event.mask THEN <<Msg(<<"File", "modified">>, None)>>
    ELSE <<Msg(<<"Unexpected event">>, event.name)>>

file_event_loop ==
    /\ pc = "blocked" /\ watcher_type = "FILE"
    /\ Iterated(Batch(queue)) # <<>>
    /\ \E event \in {Head(Iterated(Batch(queue)))} :
           /\ ReadBatch(event)
           /\ Log(event, DescribeFile(event))
           /\ ret' = "Ok(true)"
    /\ UNCHANGED <<fsVars, inputVars, stack, watcherVars, watches, nextWd, nextEv, added,
                   faulted>>

---------------------------------------------------------------------------

Environment ==
    \E d \in Nodes : Mkdir(d) \/ Rmdir(d) \/ CreateFile(d) \/ ModifyFile(d) \/ DeleteFile(d)

Next ==
    \/ ConstructFails
    \/ file_watcher
    \/ dir_watcher_heuristic
    \/ dir_watcher_recursive
    \/ walk_step
    \/ walk_done
    \/ register_logger
    \/ watch
    \/ read_fails
    \/ read_empty
    \/ dir_event_loop
    \/ file_event_loop
    \/ Environment

Spec == Init /\ [][Next]_vars

\* read_events_blocking returns once the Event Source holds an event, so a
\* blocked loop that has a batch to read does read it.
FairSpec == Spec /\ WF_vars(dir_event_loop \/ file_event_loop)

---------------------------------------------------------------------------
(* The event loops over every event mask.  Here the tree does not change;  *)
(* while watch() is blocked the Event Source delivers one event of any     *)
(* kind for any handle it has handed out: an event as the kernel sends it  *)
(* (IN_IGNORED arriving in a read of its own, after the IN_DELETE of its   *)
(* directory was read) or with several kind bits set.                      *)

KindBits == {"CREATE", "DELETE", "MODIFY", "IGNORED"}

EventNames == {None, Some(NameA), Some(NameHidden)}

Delivers(w, kinds, flags, name) ==
    /\ pc = "blocked" /\ queue = <<>> /\ ops < MaxOps
    /\ ops' = ops + 1
    /\ queue' = <<[id |-> nextEv, wd |-> w, mask |-> kinds \cup flags, name |-> name]>>
    /\ nextEv' = nextEv + 1
    /\ UNCHANGED <<dirs, files, made, inputVars, pc, stack, watcherVars, watches,
                   nextWd, added, callVars>>

EventArrives ==
    \E w \in 1..(nextWd - 1), kinds \in SUBSET KindBits \ {{}},
       flags \in SUBSET {"ISDIR"}, name \in EventNames :
        Delivers(w, kinds, flags, name)

MaskNext ==
    \/ file_watcher
    \/ dir_watcher_heuristic
    \/ dir_watcher_recursive
    \/ walk_step
    \/ walk_done
    \/ register_logger
    \/ watch
    \/ dir_event_loop
    \/ file_event_loop
    \/ EventArrives

MaskSpec == Init /\ [][MaskNext]_vars

---------------------------------------------------------------------------
(* Vocabulary of the properties.                                           *)

\* The registry of a Watcher that has one.
Registry == Unwrap(paths)

RegistryPaths == {Registry[w] : w \in DOMAIN Registry}

\* Path string p names node d of the tree.
Names(p, d) == Squeeze(p) = Squeeze(PathStr(root, d))

\* A recursive directory watcher was asked for.
RecursiveCall == ctor = "dir" /\ trav = "RECURSIVE"

\* A name that is valid UTF-8 and does not begin with ".".
PlainName(n) == n[1] # "." /\ \A i \in 1..Len(n) : n[i] # InvalidByte

\* A node all of whose components are plain names.
PlainNode(d) == \A i \in 1..Len(d) : PlainName(d[i])

\* The step in which a watch() call, having read a batch, returns.
Returns == pc = "blocked" /\ pc' = "idle" /\ handled' # None

\* The event that returning call acted on.
Acted == Unwrap(handled')

---------------------------------------------------------------------------
\* C1: under a recursive watcher, every plain-named directory created below
\* the watched root has, once every queued event has been consumed by watch()
\* calls that returned no I/O failure, exactly one "Directory created" report,
\* exactly one registry entry and a live watch.
C1_EveryCreationRegistered ==
    (pc = "idle" /\ queue = <<>> /\ ~faulted /\ RecursiveCall /\ paths # None
        /\ WdOf(<<>>) # {})
    => \A m \in made :
          (PlainNode(m[1]) /\ m[1] \in dirs)
          => /\ Cardinality({i \in 1..Len(announced) : announced[i] = m[2]}) = 1
             /\ Cardinality({w \in DOMAIN Registry :
                               Names(Registry[w], m[1])}) = 1
             /\ WdOf(m[1]) # {}

\* C2 as claimed: once a recursive watcher is constructed, the live handles
\* of the Event Source are exactly the registry's keys, each entry holding
\* the path its handle watches.
C2_HandlesEqualRegistry ==
    (Watching /\ RecursiveCall)
    => /\ paths # None
       /\ DOMAIN watches = DOMAIN Registry
       /\ \A w \in DOMAIN Registry : Registry[w] = PathStr(root, watches[w].node)

\* C2 as amended: every registry entry holds a path that was registered under
\* its handle, and every live handle that was registered under a path that is
\* valid UTF-8 has a registry entry; handles whose watch the Event Source
\* removed with their directory may remain in the registry.
C2_LiveHandlesInRegistry ==
    (Watching /\ RecursiveCall)
    => /\ paths # None
       /\ \A w \in DOMAIN Registry : \E i \in 1..Len(added) : added[i] = <<w, Registry[w]>>
       /\ \A w \in DOMAIN watches : \E i \in 1..Len(added) : added[i][1] = w
       /\ \A i \in 1..Len(added) :
            (/\ added[i][1] \in DOMAIN watches
             /\ \A j \in 1..Len(added[i][2]) : added[i][2][j] # InvalidByte)
            => added[i][1] \in DOMAIN Registry

\* C2 witness: a directory registered at run time is live in both tables
\* while a deleted directory's handle is left in the registry only.
C2_Witness ==
    /\ Watching /\ RecursiveCall /\ paths # None
    /\ \E w \in DOMAIN Registry : w \notin DOMAIN watches
    /\ \E m \in made : WdOf(m[1]) # {} /\ Unwrap(WdOf(m[1])) \in DOMAIN Registry

\* C3: a watch() call that returns Ok(true) has acted on the first event of
\* the batch it read and on no other: it registers at most one watch, its
\* messages are about that event, and the other events of the batch are gone
\* from the Event Source, so no later call acts on them.
C3_OnlyFirstEventOfBatch ==
    /\ [](/\ dropped \cap seen = {}
          /\ \A i \in 1..Len(queue) : queue[i].id \notin dropped)
    /\ [][(Returns /\ ret' = "Ok(true)")
          => /\ queue # <<>>
             /\ handled' = Some(queue[1])
             /\ seen' = seen \cup {queue[1].id}
             /\ \A i \in 2..Len(Batch(queue)) : queue[i].id \in dropped'
             /\ \A i \in 1..Len(queue') : queue'[i].id \notin Ids(Batch(queue))
             /\ Len(added') <= Len(added) + 1
             /\ Len(announced') <= Len(announced) + 1
             /\ \A j \in 1..Len(dispatched') :
                   \/ dispatched'[j].arg = queue[1].name
                   \/ dispatched'[j].text = <<"File", "modified">>
                   \/ /\ dispatched'[j].text = <<"Watching new directory">>
                      /\ added' = Append(added, <<added'[Len(added')][1],
                                                  Unwrap(dispatched'[j].arg)>>)
                      /\ file_name(Unwrap(dispatched'[j].arg)) = Unwrap(queue[1].name)]_vars

\* C3 witness: a call dropped an event of its batch, and a later call acted
\* on a later event.
C3_Witness ==
    /\ pc = "idle" /\ ret = "Ok(true)" /\ dropped # {}
    /\ \E e \in handled : \A x \in dropped : x < e.id

\* The conditions, read off the event and the state before the call, under
\* which a directory watcher goes on to register a created directory.
Registering(e) ==
    /\ watcher_type = "DIRECTORY" /\ paths # None
    /\ {"CREATE", "ISDIR"} \subseteq e.mask
    /\ e.name # None /\ PlainName(Unwrap(e.name))
    /\ e.wd \in DOMAIN Registry

\* C4: a recursive watcher that handles the creation of a directory whose
\* name begins with "." hands exactly the "Directory created" message to the
\* logging macro (which delivers it to the attached logger), registers no
\* watch and leaves the registry as it was.
C4_HiddenDirectoryCreated ==
    [][(Returns /\ watcher_type = "DIRECTORY" /\ paths # None
          /\ {"CREATE", "ISDIR"} \subseteq Acted.mask
          /\ Acted.name # None /\ Unwrap(Acted.name)[1] = ".")
       => /\ dispatched' = <<Msg(<<"Directory", "created">>, Acted.name)>>
          /\ emitted' = (IF logger # None THEN dispatched' ELSE <<>>)
          /\ ret' = "Ok(true)"
          /\ added' = added /\ watches' = watches /\ nextWd' = nextWd
          /\ paths' = paths]_vars

\* C4 witness: the creation of a hidden directory under a registered
\* directory was handled and logged, and the directory has no watch.
C4_Witness ==
    /\ pc = "idle" /\ paths # None /\ logger # None
    /\ \E e \in handled :
          /\ e.mask = {"CREATE", "ISDIR"} /\ e.name = Some(NameHidden)
          /\ e.wd \in DOMAIN Registry
          /\ emitted = <<Msg(<<"Directory", "created">>, e.name)>>
    /\ <<NameHidden>> \in dirs /\ WdOf(<<NameHidden>>) = {}

\* C5: a Heuristic directory watcher and a file watcher have no registry and
\* have called add_watch exactly once, at construction, whatever events they
\* have handled since.
C5_NoRegistryOneWatch ==
    (Watching /\ (ctor = "file" \/ trav = "HEURISTIC"))
    => /\ paths = None
       /\ Len(added) = 1 /\ added[1][2] = root
       /\ DOMAIN watches \subseteq {added[1][1]}

\* C5 witness: a Heuristic watcher has handled the creation of a plain-named
\* directory.
C5_Witness ==
    /\ pc = "idle" /\ ctor = "dir" /\ trav = "HEURISTIC" /\ ret = "Ok(true)"
    /\ \E e \in handled : e.mask = {"CREATE", "ISDIR"} /\ e.name = Some(NameA)
    /\ <<NameA>> \in dirs

\* A node that is, or lies below, an entry whose name begins with ".".
UnderHidden(d) ==
    \/ file_name(root)[1] = "."
    \/ \E i \in 1..Len(d) : d[i][1] = "."

\* C6: a recursive construction calls add_watch for no entry that is hidden
\* or lies in the subtree of a hidden entry, and stores none in the registry
\* (nor does any later watch() call).
C6_HiddenNeverWalked ==
    RecursiveCall
    => \A d \in Nodes :
          UnderHidden(d)
          => /\ \A i \in 1..Len(added) : ~Names(added[i][2], d)
             /\ paths # None => \A p \in RegistryPaths : ~Names(p, d)
             /\ WdOf(d) = {}

\* C6 witness: the construction has walked a tree that holds a hidden
\* directory with a subdirectory, and registered the plain directory beside it.
C6_Witness ==
    /\ pc = "idle" /\ ops = 0 /\ RecursiveCall /\ paths # None
    /\ {<<NameHidden>>, <<NameHidden, NameA>>} \subseteq dirs
    /\ PathStr(root, <<NameA>>) \in RegistryPaths

\* C7: after a successful recursive construction on a root that is a
\* directory, the root is watched and has a registry entry, whatever its name;
\* no entry that is not a directory has a watch or a registry entry.
C7_RootAlwaysWatched ==
    (Watching /\ RecursiveCall /\ <<>> \in dirs)
    => /\ paths # None
       /\ WdOf(<<>>) # {}
       /\ root \in RegistryPaths
       /\ \A f \in files : WdOf(f) = {} /\ \A p \in RegistryPaths : ~Names(p, f)

\* The events a watcher classifies: create, delete or modify for a directory
\* watcher, every event for a file watcher.
Classified(e) ==
    watcher_type = "FILE" \/ e.mask \cap {"CREATE", "DELETE", "MODIFY"} # {}

\* C8 as claimed: handling one classified event emits exactly one message
\* when a logger is attached and none when no logger is attached.
C8_OneMessagePerEvent ==
    [][(Returns /\ Classified(Acted))
       => Len(emitted') = (IF logger # None THEN 1 ELSE 0)]_vars

\* C8 as amended: with no logger attached no message is emitted; with a logger
\* attached a classified event emits exactly one message, except the creation
\* of a directory that the watcher goes on to register, which emits two:
\* "Directory created" and "Watching new directory".
C8_OneOrTwoMessagesPerEvent ==
    [][(Returns /\ Classified(Acted))
       => /\ Len(emitted') =
               (IF logger = None THEN 0 ELSE IF Registering(Acted) THEN 2 ELSE 1)
          /\ Len(emitted') = 2
               => /\ emitted'[1].text = <<"Directory", "created">>
                  /\ emitted'[2].text = <<"Watching new directory">>]_vars

\* C8 witness: with a logger attached, one call emitted two messages.
C8_Witness ==
    /\ pc = "idle" /\ logger # None /\ handled # None
    /\ Len(emitted) = 2

\* C9: when add_watch fails for a created directory, the watch() call returns
\* the failure having acted on that event alone, and the registry and the
\* Event Source's watches are what they were before the call.
C9_FailedRegistration ==
    [][(Returns /\ Registering(Acted) /\ added' = added)
       => /\ ret' = "Err"
          /\ handled' = Some(queue[1])
          /\ seen' = seen \cup {queue[1].id}
          /\ paths' = paths
          /\ watches' = watches]_vars

\* C9 witness: a watch() call acted on the creation of a directory and
\* returned the failure of its registration.
C9_Witness ==
    /\ pc = "idle" /\ ret = "Err" /\ paths # None
    /\ \E e \in handled :
          /\ e.mask = {"CREATE", "ISDIR"} /\ e.name = Some(NameA)
          /\ e.wd \in DOMAIN Registry

\* C10: every step of a constructed recursive watcher keeps every key of the
\* registry, and handling the deletion of a directory leaves the registry
\* unchanged.
C10_RegistryOnlyGrows ==
    [][(Watching /\ paths # None)
       => /\ paths' # None
          /\ DOMAIN Registry \subseteq DOMAIN Unwrap(paths')
          /\ (Returns /\ "DELETE" \in Acted.mask /\ "CREATE" \notin Acted.mask
                /\ "ISDIR" \in Acted.mask)
             => paths' = paths]_vars

\* C10 witness: the deletion of a directory that has its own registry entry
\* was handled, and the entry is still there.
C10_Witness ==
    /\ pc = "idle" /\ paths # None /\ ret = "Ok(true)"
    /\ \E e \in handled :
          /\ e.mask = {"DELETE", "ISDIR"} /\ e.wd \in DOMAIN Registry
          /\ \E d \in Nodes :
                /\ d # <<>> /\ d \notin dirs
                /\ PathStr(root, d) = Registry[e.wd] \o <<"/">> \o Unwrap(e.name)
                /\ PathStr(root, d) \in RegistryPaths

\* C11: a watch() call of a file watcher returns Ok(true) on the first event
\* it reads, whatever its mask; for a mask containing modify it hands exactly
\* one message, "File modified", to the logger, and for every other mask
\* exactly one message, "Unexpected event" with the event's name; an attached
\* logger receives that message.
C11_FileModifiedOrUnexpected ==
    [][(Returns /\ watcher_type = "FILE")
       => /\ Acted = Head(queue)
          /\ ret' = "Ok(true)"
          /\ Len(dispatched') = 1
          /\ ("MODIFY" \in Acted.mask)
               => dispatched'[1] = [text |-> <<"File", "modified">>, arg |-> None]
          /\ ("MODIFY" \notin Acted.mask)
               => dispatched'[1] = [text |-> <<"Unexpected event">>, arg |-> Acted.name]
          /\ (logger # None) => emitted' = dispatched'
          /\ UNCHANGED <<paths, watches, added>>]_vars

\* C11 witness: a file watcher with a logger has returned from a second
\* call, on an event with delete and ignored but not modify set, and the
\* logger received "Unexpected event".
C11_Witness ==
    /\ pc = "idle" /\ watcher_type = "FILE" /\ logger # None /\ ret = "Ok(true)"
    /\ handled # None /\ Cardinality(seen) >= 2
    /\ {"DELETE", "IGNORED"} \subseteq Unwrap(handled).mask
    /\ "MODIFY" \notin Unwrap(handled).mask
    /\ Len(emitted) = 1 /\ emitted[1].text = <<"Unexpected event">>

\* C12: a blocked watch() call stays blocked while the Event Source has no
\* event for it and no read fails: it returns only with an I/O failure or
\* after reading a non-empty batch, and a return that is not a failure is
\* Ok(true); and no call stays blocked for ever while the Event Source holds
\* an event for it, so that, leaving the blocked state only by returning, it
\* returns.
C12_ReturnsOnlyOnEventOrFailure ==
    /\ [][(pc = "blocked")
          => /\ pc' \in {"blocked", "idle"}
             /\ (pc' = "blocked") => (ret' = "none" /\ handled' = None)
             /\ (pc' = "idle") => /\ ret' \in {"Ok(true)", "Err"}
                                  /\ (ret' = "Ok(true)") => (queue # <<>> /\ handled' # None)
                                  /\ (queue = <<>>) => (ret' = "Err" /\ handled' = None)]_vars
    /\ []<>~(pc = "blocked" /\ queue # <<>>)

\* C12 witness: a call that stayed blocked on an empty Event Source while the
\* tree changed has returned Ok(true) on the event then delivered.
C12_Witness ==
    /\ pc = "idle" /\ ret = "Ok(true)" /\ handled # None
    /\ Cardinality(seen) = 1 /\ ops >= 1
    /\ \E m \in made : Unwrap(handled).id = m[2]

\* The directories a walk from the root yields: those reached from the root
\* through directories that are not hidden, the root included.
Yielded ==
    {d \in dirs : \A k \in 0..Len(d) :
                     /\ SubSeq(d, 1, k) \in dirs
                     /\ ~starts_with_dot(file_name(PathStr(root, SubSeq(d, 1, k))))}

\* C13: a constructor that failed left no Watcher (no kind, no registry, no
\* call on it ever), whatever it had registered before failing; a Watcher
\* exists only after every step succeeded: as returned, a file or heuristic
\* Watcher has its watch on the path given, and a recursive Watcher has a
\* watch on every directory the walk yielded, registered under its path.
C13_ConstructionAllOrNothing ==
    /\ (pc = "failed")
       => /\ watcher_type = "none" /\ paths = None /\ logger = None
          /\ ret = "none" /\ handled = None /\ queue = <<>>
    /\ (Watching /\ ops = 0 /\ queue = <<>>)
       => /\ watcher_type # "none"
          /\ ~RecursiveCall => (WdOf(<<>>) # {} /\ Len(added) = 1)
          /\ RecursiveCall
             => /\ paths # None
                /\ Len(added) = Cardinality(Yielded)
                /\ \A d \in Yielded :
                      /\ WdOf(d) # {}
                      /\ \E i \in 1..Len(added) :
                            added[i] = <<Unwrap(WdOf(d)), PathStr(root, d)>>

\* C13 witness: a recursive construction failed after it had registered the
\* first watch of a walk that yields more, and no Watcher exists.
C13_Witness ==
    /\ pc = "failed" /\ RecursiveCall /\ Len(added) = 1
    /\ Cardinality(Yielded) > 1
    /\ watcher_type = "none" /\ paths = None

\* C14: the first message of a directory watcher's call names the event's
\* kind by the first of create, delete, modify that its mask has: "created"
\* whenever create is set, "deleted" when delete is set and create is not,
\* "modified" when modify alone of the three is set; its first word is
\* "Directory" when the is-directory bit is set and "File" when not, for each
\* kind; and only an event with create set leads to a registration.
C14_CreateDeleteModifyPriority ==
    [][(Returns /\ watcher_type = "DIRECTORY")
       => LET mask == Acted.mask
              word == IF "ISDIR" \in mask THEN "Directory" ELSE "File"
              said(kind) == /\ Len(dispatched') >= 1
                            /\ dispatched'[1] = [text |-> <<word, kind>>, arg |-> Acted.name]
          IN  /\ ("CREATE" \in mask) => said("created")
              /\ ("CREATE" \notin mask /\ "DELETE" \in mask) => said("deleted")
              /\ ({"CREATE", "DELETE"} \cap mask = {} /\ "MODIFY" \in mask) => said("modified")
              /\ ("CREATE" \notin mask)
                   => (Len(dispatched') <= 1 /\ UNCHANGED <<paths, watches, added>>)
              /\ (Registering(Acted) /\ ret' = "Ok(true)") => Len(added') = Len(added) + 1]_vars

\* C14 witness: a call has returned on an event with create, delete and
\* modify all set and the is-directory bit clear, and said "File created".
C14_Witness ==
    /\ pc = "idle" /\ watcher_type = "DIRECTORY" /\ handled # None
    /\ {"CREATE", "DELETE", "MODIFY"} \subseteq Unwrap(handled).mask
    /\ "ISDIR" \notin Unwrap(handled).mask
    /\ Len(dispatched) = 1 /\ dispatched[1].text = <<"File", "created">>

\* C15: when a call of a recursive watcher registers a watch, the path it
\* gives to add_watch is the registry's path for the event's own handle, then
\* "/", then the event's name, and the registry afterwards holds that path
\* under the handle add_watch returned and is otherwise as before; when the
\* event's handle has no registry entry, the call registers no watch and
\* leaves the registry as it was.
C15_ChildPathFromEventHandle ==
    [][(Returns /\ watcher_type = "DIRECTORY" /\ paths # None)
       => /\ (Acted.wd \notin DOMAIN Registry)
               => UNCHANGED <<paths, watches, nextWd, added>>
          /\ (added' # added \/ paths' # paths)
               => /\ Acted.wd \in DOMAIN Registry /\ Acted.name # None
                  /\ LET child == Registry[Acted.wd] \o <<"/">> \o Unwrap(Acted.name)
                         w == added'[Len(added')][1]
                     IN  /\ added' = Append(added, <<w, child>>)
                         /\ w \in DOMAIN watches'
                         /\ Names(child, watches'[w].node)
                         /\ paths' # None
                         /\ DOMAIN Unwrap(paths') = DOMAIN Registry \cup {w}
                         /\ Unwrap(paths')[w] = child
                         /\ \A x \in DOMAIN Registry \ {w} : Unwrap(paths')[x] = Registry[x]]_vars

\* C15 witness: a recursive watcher that registered a created directory under
\* the root has then returned from a call on the creation of a directory
\* whose event handle has no registry entry.
C15_Witness ==
    /\ pc = "idle" /\ RecursiveCall /\ paths # None /\ ret = "Ok(true)"
    /\ handled # None
    /\ {"CREATE", "ISDIR"} \subseteq Unwrap(handled).mask
    /\ Unwrap(handled).name = Some(NameA)
    /\ Unwrap(handled).wd \notin DOMAIN Registry
    /\ \E m \in made : m[1] = <<NameA>> /\ PathStr(root, m[1]) \in RegistryPaths

\* C16: a call of a directory watcher that returns Ok(true) has acted on an
\* event with create, delete or modify set and has handed that event's
\* description to the logger.
C16_SuccessMeansClassifiedEvent ==
    [][(Returns /\ watcher_type = "DIRECTORY" /\ ret' = "Ok(true)")
       => /\ Acted.mask \cap {"CREATE", "DELETE", "MODIFY"} # {}
          /\ Len(dispatched') >= 1]_vars

\* C17 as claimed: in a recursive watcher's registry, distinct handles map to
\* distinct paths.
C17_DistinctHandlesDistinctPaths ==
    (RecursiveCall /\ paths # None)
    => \A w1, w2 \in DOMAIN Registry : (w1 # w2) => (Registry[w1] # Registry[w2])

\* C17 as amended: of the handles that a recursive watcher's registry maps
\* to one path, at most one is a live watch, and it is the one registered
\* last; the others are handles whose watch went with a deleted directory.
C17_LiveHandlesDistinctPaths ==
    (RecursiveCall /\ paths # None)
    => \A w1, w2 \in DOMAIN Registry :
          (w1 < w2 /\ Registry[w1] = Registry[w2]) => w1 \notin DOMAIN watches

\* C17 witness: a registered directory was deleted and created again, and
\* the registry holds its path twice, under the stale and the live handle.
C17_Witness ==
    /\ RecursiveCall /\ paths # None /\ pc = "idle"
    /\ \E w1, w2 \in DOMAIN Registry :
          /\ w1 < w2 /\ Registry[w1] = Registry[w2]
          /\ w1 \notin DOMAIN watches /\ w2 \in DOMAIN watches

\* One name component that is not hidden: no "/" in it, no "." in front.
PlainComponent(n) == n # <<>> /\ n[1] # "." /\ \A i \in 1..Len(n) : n[i] # "/"

\* What follows q in p, when p begins with q.
After(p, q) == SubSeq(p, Len(q) + 1, Len(p))

BeginsWith(p, q) == Len(q) <= Len(p) /\ SubSeq(p, 1, Len(q)) = q

\* C18 as claimed: every path in a recursive watcher's registry is the root
\* path given at construction, or the path of another entry followed by "/"
\* and one name component that is not hidden.
C18_ClosedUnderParents ==
    (RecursiveCall /\ paths # None)
    => \A p \in RegistryPaths :
          \/ p = root
          \/ \E q \in RegistryPaths :
                /\ BeginsWith(p, q \o <<"/">>)
                /\ PlainComponent(After(p, q \o <<"/">>))

\* C18 as amended: every path in the registry is the root path, or the path
\* of another entry followed by one name component that is not hidden, the
\* two separated by "/", which may be the "/" that the other entry's path
\* already ends with.
C18_ClosedUnderParentsByJoin ==
    (RecursiveCall /\ paths # None)
    => \A p \in RegistryPaths :
          \/ p = root
          \/ \E q \in RegistryPaths :
                \/ /\ BeginsWith(p, q \o <<"/">>)
                   /\ PlainComponent(After(p, q \o <<"/">>))
                \/ /\ q[Len(q)] = "/"
                   /\ BeginsWith(p, q)
                   /\ PlainComponent(After(p, q))

\* C18 witness: under a root path given with a trailing "/", the registry
\* holds a directory as the walk spelled it and, after the directory was
\* deleted and created again, as the event loop spelled it.
C18_Witness ==
    /\ pc = "idle" /\ RecursiveCall /\ paths # None
    /\ root[Len(root)] = "/"
    /\ {root, root \o NameA, root \o <<"/">> \o NameA} \subseteq RegistryPaths

====
